---- MODULE Spec2Model ----
(***************************************************************************)
(* Model of the syrinject dependency injection container                   *)
(* (src/src/container/Container.ts).                                       *)
(*                                                                         *)
(* The container's state is its registry: a map from tokens to entries,    *)
(* each entry holding a provider and, once a singleton was resolved, the   *)
(* cached instance.  resolve() is a synchronous depth-first recursion; it  *)
(* is modelled as one operator that threads the registry, the allocation   *)
(* counter and an event log through the recursion, so that one Resolve     *)
(* step of the model is one top-level resolve() call of the program.       *)
(***************************************************************************)
EXTENDS Integers, Sequences, FiniteSets, TLC

VARIABLES registry, nextId, last, dropped, regs

vars == <<registry, nextId, last, dropped, regs>>

----------------------------------------------------------------------------
(* Bounds of the exploration.                                              *)

\* Objects allocated by constructors and factories over one run.
MaxObjs == 3

\* Nested resolveInternal frames the engine's call stack holds before it
\* raises RangeError (a factory calling back into resolve may recurse for ever).
MaxDepth == 4

\* register calls (of any form) over one run.
MaxRegs == 3

----------------------------------------------------------------------------
(* Tokens, values, classes, factories: the user's side of the program.     *)

Tokens == {"A", "B", "C"}

\* JavaScript values.  Objects have an identity (id); an instance remembers
\* the class that built it and the constructor arguments it was built with.
Undefined == [k |-> "undefined", id |-> 0, cls |-> "", args |-> <<>>]
Null == [k |-> "null", id |-> 0, cls |-> "", args |-> <<>>]
Prim == [k |-> "number", id |-> 0, cls |-> "", args |-> <<>>]
Obj(id, cls, args) == [k |-> "object", id |-> id, cls |-> cls, args |-> args]

IsObj(v) == v.k = "object"

\* The values registerValue is called with.
Values == {Undefined, Null, Prim}

\* User classes.  Plain declares no static metadata; WithDeps declares
\* static deps = ["B"]; WithDependencies declares static dependencies = ["C"];
\* WithBoth declares static deps = ["B"] and static dependencies = ["C"];
\* the constructor of Throws raises an error of its own.
Classes == {"Plain", "WithDeps", "WithDependencies", "WithBoth", "Throws"}

ClassThrows(cls) == cls = "Throws"

ClassStatics(cls) ==
    CASE cls = "WithDeps" -> [keys |-> {"deps"}, deps |-> <<"B">>, dependencies |-> <<>>]
      [] cls = "WithDependencies" -> [keys |-> {"dependencies"}, deps |-> <<>>, dependencies |-> <<"C">>]
      [] cls = "WithBoth" -> [keys |-> {"deps", "dependencies"}, deps |-> <<"B">>, dependencies |-> <<"C">>]
      [] OTHER -> [keys |-> {}, deps |-> <<>>, dependencies |-> <<>>]

\* A token is a string, a symbol or a class constructor.  Ctor(cls) is the
\* constructor of cls used as a token; NameOf is its name property, a string.
Ctor(cls) == "class " \o cls

IsCtor(token) == \E cls \in Classes : token = Ctor(cls)

ClassOfCtor(token) == CHOOSE cls \in Classes : token = Ctor(cls)

NameOf(cls) == cls

\* User factories: the tokens the body resolves through the container it is
\* handed, in order, and what it returns (or that it throws) afterwards.
Factories == {"mkObject", "mkUndefined", "mkNull", "mkViaA", "mkViaC", "mkThrows"}

FactoryBody(f) ==
    CASE f = "mkObject" -> [calls |-> <<>>, ret |-> "object"]
      [] f = "mkUndefined" -> [calls |-> <<>>, ret |-> "undefined"]
      [] f = "mkNull" -> [calls |-> <<>>, ret |-> "null"]
      [] f = "mkThrows" -> [calls |-> <<>>, ret |-> "throw"]
      [] f = "mkViaC" -> [calls |-> <<"C">>, ret |-> "object"]
      [] OTHER -> [calls |-> <<"A">>, ret |-> "object"]

----------------------------------------------------------------------------
(* Providers (src/src/types/Provider.ts).  A provider is an object; which  *)
(* of its optional fields are present is its key set.                      *)

MkProvider(keys, useClass, deps, singleton, useValue, useFactory) ==
    [keys |-> keys, useClass |-> useClass, deps |-> deps, singleton |-> singleton,
     useValue |-> useValue, useFactory |-> useFactory]

ClassProvider(cls, keys, deps, singleton) ==
    MkProvider({"useClass"} \cup keys, cls, deps, singleton, Undefined, "")

ValueProvider(v) == MkProvider({"useValue"}, "", <<>>, FALSE, v, "")

FactoryProvider(f, keys, singleton) ==
    MkProvider({"useFactory"} \cup keys, "", <<>>, singleton, Undefined, f)

\* An object with none of useClass, useValue, useFactory.
EmptyProvider == MkProvider({}, "", <<>>, FALSE, Undefined, "")

\* Registration options: { singleton?: boolean; deps?: Token[] }.
MkOptions(keys, singleton, deps) == [keys |-> keys, singleton |-> singleton, deps |-> deps]

NoOptions == MkOptions({}, FALSE, <<>>)

IsClassProvider(provider) == "useClass" \in provider.keys

\* Mutation of IsValueProvider: tests provider.useValue !== undefined
\* instead of the presence of the field.
IsValueProviderDefined(provider) ==
    "useValue" \in provider.keys /\ provider.useValue.k # "undefined"

IsValueProvider(provider) == "useValue" \in provider.keys

IsFactoryProvider(provider) == "useFactory" \in provider.keys

\* Mutation of IsSingleton: the singleton flag is not consulted.
IsSingletonIgnored(provider) == TRUE

\* provider.singleton as a condition: an absent field reads undefined.
IsSingleton(provider) == "singleton" \in provider.keys /\ provider.singleton

\* classRef.deps ?? classRef.dependencies ?? []
GetDepsFromClass(useClass) ==
    LET classRef == ClassStatics(useClass)
    IN IF "deps" \in classRef.keys THEN classRef.deps
       ELSE IF "dependencies" \in classRef.keys THEN classRef.dependencies
       ELSE <<>>

\* The first argument of register: a provider object or a class.
ObjectArg(p) == [typeof |-> "object", obj |-> p, fn |-> ""]

ClassArg(cls) == [typeof |-> "function", obj |-> EmptyProvider, fn |-> cls]

IsProvider(value) == value.typeof = "object"

\* The second argument of registerClass: a class, an options object, or
\* nothing.
ClassRefArg(cls) == [typeof |-> "function", fn |-> cls, opts |-> MkOptions({}, FALSE, <<>>)]

OptionsArg(options) == [typeof |-> "object", fn |-> "", opts |-> options]

AbsentArg == [typeof |-> "undefined", fn |-> "", opts |-> MkOptions({}, FALSE, <<>>)]

\* (useClassOrOptions as { singleton?, deps? }) ?? {}: of a class, the fields
\* read as options are its static properties of those names.
AsOptions(useClassOrOptions) ==
    CASE useClassOrOptions.typeof = "object" -> useClassOrOptions.opts
      [] useClassOrOptions.typeof = "function" ->
             MkOptions(ClassStatics(useClassOrOptions.fn).keys \cap {"deps"}, FALSE,
                       ClassStatics(useClassOrOptions.fn).deps)
      [] OTHER -> MkOptions({}, FALSE, <<>>)

\* useClassOrOptions as Newable<T>: the value is handed to register as it is.
AsNewable(useClassOrOptions) ==
    CASE useClassOrOptions.typeof = "function" -> ClassArg(useClassOrOptions.fn)
      [] useClassOrOptions.typeof = "object" ->
             ObjectArg(MkProvider(useClassOrOptions.opts.keys, "", useClassOrOptions.opts.deps,
                                  useClassOrOptions.opts.singleton, Undefined, ""))
      [] OTHER -> ClassArg("")

NormalizeProvider(providerOrClass, options) ==
    IF IsProvider(providerOrClass) THEN providerOrClass.obj
    ELSE ClassProvider(providerOrClass.fn, {"singleton", "deps"},
                       IF "deps" \in options.keys THEN options.deps ELSE <<>>,
                       IF "singleton" \in options.keys THEN options.singleton ELSE FALSE)

----------------------------------------------------------------------------
(* Registry entries and errors.                                            *)

\* { provider, value? }: hasValue says whether the value field was assigned.
MkEntry(provider) == [provider |-> provider, hasValue |-> FALSE, value |-> Undefined]

EmptyRegistry == [t \in {} |-> MkEntry(EmptyProvider)]

\* Mutation of RegistrySet: an existing entry is updated in place
\* (entry.provider = provider) and keeps its cached value.
RegistrySetInPlace(reg, token, entry) ==
    IF token \in DOMAIN reg
    THEN [reg EXCEPT ![token] = [@ EXCEPT !.provider = entry.provider]]
    ELSE [t \in (DOMAIN reg) \cup {token} |-> IF t = token THEN entry ELSE reg[t]]

RegistrySet(reg, token, entry) ==
    [t \in (DOMAIN reg) \cup {token} |-> IF t = token THEN entry ELSE reg[t]]

\* Mutation of RegistryDelete: the cached value is deleted, not the entry.
RegistryDeleteValueOnly(reg, token) ==
    [t \in DOMAIN reg |-> IF t = token THEN MkEntry(reg[t].provider) ELSE reg[t]]

RegistryDelete(reg, token) == [t \in (DOMAIN reg) \ {token} |-> reg[t]]

RegistryHas(reg, token) == token \in DOMAIN reg

MkError(name, token, path) == [name |-> name, token |-> token, path |-> path]

NoError == MkError("", "", <<>>)

\* Mutation of DependencyNotFoundError: the token field is not set.
DependencyNotFoundErrorNoToken(token) == MkError("DependencyNotFoundError", "", <<>>)

DependencyNotFoundError(token) == MkError("DependencyNotFoundError", token, <<>>)

\* Mutation of CircularDependencyError: the path is stored without the
\* repeated token (new CircularDependencyError(resolving)).
CircularDependencyErrorNoRepeat(path) ==
    MkError("CircularDependencyError", "", SubSeq(path, 1, Len(path) - 1))

CircularDependencyError(path) == MkError("CircularDependencyError", "", path)

\* Mutation of InvalidProviderError: the wrong error class is raised.
InvalidProviderErrorAsNotFound(token) == MkError("DependencyNotFoundError", token, <<>>)

InvalidProviderError(token) == MkError("InvalidProviderError", token, <<>>)

\* What the engine raises when the call stack is exhausted.
RangeError == MkError("RangeError", "", <<>>)

\* What a user constructor or factory raises.
UserError == MkError("Error", "", <<>>)

----------------------------------------------------------------------------
(* Resolution (Container.resolve, resolveInternal, createInstance).        *)
(*                                                                         *)
(* The recursion threads the registry (reg), the allocation counter (nid)  *)
(* and the event log (log).  Every resolveInternal frame at depth d logs   *)
(* "enter" when it is called and "return" or "throw" when it is left; a    *)
(* constructor call logs "new" with the instance, a factory logs "invoke"  *)
(* when it is called and "made" with its result when it returns; a         *)
(* constructor or factory that raises an error logs "raise".               *)

Ev(e, t, d, v) == [e |-> e, t |-> t, d |-> d, v |-> v]

Returned(token, d, val, reg, nid, log) ==
    [ok |-> TRUE, val |-> val, err |-> NoError, reg |-> reg, nid |-> nid,
     log |-> Append(log, Ev("return", token, d, val))]

\* Mutation of Thrown: an error raised by user code is caught and reported
\* as an InvalidProviderError of the token being resolved.
ThrownConverted(token, d, err, reg, nid, log) ==
    [ok |-> FALSE, val |-> Undefined,
     err |-> IF err.name = "Error" THEN MkError("InvalidProviderError", token, <<>>) ELSE err,
     reg |-> reg, nid |-> nid,
     log |-> Append(log, Ev("throw", token, d, Undefined))]

Thrown(token, d, err, reg, nid, log) ==
    [ok |-> FALSE, val |-> Undefined, err |-> err, reg |-> reg, nid |-> nid,
     log |-> Append(log, Ev("throw", token, d, Undefined))]

\* Mutation of Includes: only the last element is compared.
IncludesLast(seq, x) == Len(seq) > 0 /\ seq[Len(seq)] = x

\* resolving.includes(token)
Includes(seq, x) == \E i \in 1..Len(seq) : seq[i] = x

\* Mutation of CacheInstance: the instance is stored whether the provider is
\* a singleton or not.
CacheInstanceAlways(reg, token, provider, instance) ==
    [reg EXCEPT ![token] = [@ EXCEPT !.hasValue = TRUE, !.value = instance]]

\* if (provider.singleton) { entry.value = instance; }
CacheInstance(reg, token, provider, instance) ==
    IF IsSingleton(provider)
    THEN [reg EXCEPT ![token] = [@ EXCEPT !.hasValue = TRUE, !.value = instance]]
    ELSE reg

\* Mutation of HasCached: the cached value is never returned.
HasCachedIgnored(entry) == FALSE

\* provider.singleton && entry.value !== undefined
HasCached(entry) == IsSingleton(entry.provider) /\ entry.value # Undefined

\* provider.deps ?? this.getDepsFromClass(provider.useClass)
\* Mutation of DepsOf: an empty list counts as absent
\* (provider.deps?.length ? provider.deps : getDepsFromClass(...)).
DepsOfNonEmpty(provider) ==
    IF "deps" \in provider.keys /\ provider.deps # <<>>
    THEN provider.deps ELSE GetDepsFromClass(provider.useClass)

DepsOf(provider) ==
    IF "deps" \in provider.keys THEN provider.deps ELSE GetDepsFromClass(provider.useClass)

\* Mutation of Construct: the arguments are passed in reverse order.
ConstructReversed(ClassRef, resolvedDeps, nid) ==
    Obj(nid, ClassRef,
        [n \in 1..Len(resolvedDeps) |-> resolvedDeps[Len(resolvedDeps) + 1 - n]])

\* new ClassRef(...resolvedDeps)
Construct(ClassRef, resolvedDeps, nid) == Obj(nid, ClassRef, resolvedDeps)

RECURSIVE ResolveInternal(_, _, _, _, _, _)
RECURSIVE ResolveDeps(_, _, _, _, _, _, _, _)
RECURSIVE ResolveDepsRightToLeft(_, _, _, _, _, _, _, _)
RECURSIVE RunFactory(_, _, _, _, _, _)
RECURSIVE RunFactoryOnOuterPath(_, _, _, _, _, _)

\* Mutation of ResolveDeps: the dependencies are resolved from the last to
\* the first (the arguments still arrive in the order of the list).
ResolveDepsRightToLeft(deps, i, acc, resolving, reg, nid, log, d) ==
    IF i > Len(deps)
    THEN [ok |-> TRUE, args |-> acc, err |-> NoError, reg |-> reg, nid |-> nid, log |-> log]
    ELSE LET r == ResolveInternal(deps[Len(deps) + 1 - i], resolving, reg, nid, log, d)
         IN IF ~r.ok
            THEN [ok |-> FALSE, args |-> acc, err |-> r.err, reg |-> r.reg,
                  nid |-> r.nid, log |-> r.log]
            ELSE ResolveDepsRightToLeft(deps, i + 1, <<r.val>> \o acc, resolving,
                                        r.reg, r.nid, r.log, d)

\* deps.map(dep => this.resolveInternal(dep, resolving)): left to right, and
\* the first dependency that throws ends the map.
ResolveDeps(deps, i, acc, resolving, reg, nid, log, d) ==
    IF i > Len(deps)
    THEN [ok |-> TRUE, args |-> acc, err |-> NoError, reg |-> reg, nid |-> nid, log |-> log]
    ELSE LET r == ResolveInternal(deps[i], resolving, reg, nid, log, d)
         IN IF ~r.ok
            THEN [ok |-> FALSE, args |-> acc, err |-> r.err, reg |-> r.reg,
                  nid |-> r.nid, log |-> r.log]
            ELSE ResolveDeps(deps, i + 1, Append(acc, r.val), resolving,
                             r.reg, r.nid, r.log, d)

\* createInstance(ClassRef, deps, resolving), called by the frame of `token`
\* at depth d; the dependencies are resolved in frames at depth d + 1.
CreateInstance(token, ClassRef, deps, resolving, reg, nid, log, d) ==
    LET rd == ResolveDeps(deps, 1, <<>>, resolving, reg, nid, log, d + 1)
        instance == Construct(ClassRef, rd.args, rd.nid)
    IN IF ~rd.ok
       THEN [ok |-> FALSE, val |-> Undefined, err |-> rd.err, reg |-> rd.reg,
             nid |-> rd.nid, log |-> rd.log]
       ELSE IF ClassThrows(ClassRef)
       THEN [ok |-> FALSE, val |-> Undefined, err |-> UserError, reg |-> rd.reg,
             nid |-> rd.nid, log |-> Append(rd.log, Ev("raise", token, d, Undefined))]
       ELSE [ok |-> TRUE, val |-> instance, err |-> NoError, reg |-> rd.reg,
             nid |-> rd.nid + 1, log |-> Append(rd.log, Ev("new", token, d, instance))]

\* Mutation of RunFactory: the resolve calls of the body continue the path
\* of the frames that are open when the factory is invoked.
RunFactoryOnOuterPath(calls, i, reg, nid, log, d) ==
    IF i > Len(calls)
    THEN [ok |-> TRUE, err |-> NoError, reg |-> reg, nid |-> nid, log |-> log]
    ELSE LET open == [k \in 1..(d - 1) |->
                         log[CHOOSE h \in 1..Len(log) :
                                 /\ log[h].e = "enter" /\ log[h].d = k
                                 /\ \A g \in (h + 1)..Len(log) :
                                        ~(log[g].e = "enter" /\ log[g].d = k)].t]
             r == ResolveInternal(calls[i], open, reg, nid, log, d)
         IN IF ~r.ok
            THEN [ok |-> FALSE, err |-> r.err, reg |-> r.reg, nid |-> r.nid, log |-> r.log]
            ELSE RunFactoryOnOuterPath(calls, i + 1, r.reg, r.nid, r.log, d)

\* provider.useFactory(this): the body calls container.resolve(t), which is
\* resolveInternal(t, []), for each token of its calls, then returns.
RunFactory(calls, i, reg, nid, log, d) ==
    IF i > Len(calls)
    THEN [ok |-> TRUE, err |-> NoError, reg |-> reg, nid |-> nid, log |-> log]
    ELSE LET r == ResolveInternal(calls[i], <<>>, reg, nid, log, d)
         IN IF ~r.ok
            THEN [ok |-> FALSE, err |-> r.err, reg |-> r.reg, nid |-> r.nid, log |-> r.log]
            ELSE RunFactory(calls, i + 1, r.reg, r.nid, r.log, d)

UseFactory(token, f, reg, nid, log, d) ==
    LET body == FactoryBody(f)
        rb == RunFactory(body.calls, 1, reg, nid, Append(log, Ev("invoke", token, d, Undefined)), d + 1)
        val == CASE body.ret = "object" -> Obj(rb.nid, "Object", <<>>)
                 [] body.ret = "null" -> Null
                 [] OTHER -> Undefined
    IN IF ~rb.ok
       THEN [ok |-> FALSE, val |-> Undefined, err |-> rb.err, reg |-> rb.reg,
             nid |-> rb.nid, log |-> rb.log]
       ELSE IF body.ret = "throw"
       THEN [ok |-> FALSE, val |-> Undefined, err |-> UserError, reg |-> rb.reg,
             nid |-> rb.nid, log |-> Append(rb.log, Ev("raise", token, d, Undefined))]
       ELSE [ok |-> TRUE, val |-> val, err |-> NoError, reg |-> rb.reg,
             nid |-> IF body.ret = "object" THEN rb.nid + 1 ELSE rb.nid,
             log |-> Append(rb.log, Ev("made", token, d, val))]

ResolveInternal(token, resolving, reg, nid, log, d) ==
    LET log1 == Append(log, Ev("enter", token, d, Undefined))
    IN IF d > MaxDepth THEN Thrown(token, d, RangeError, reg, nid, log1)
       ELSE IF Includes(resolving, token)
       THEN Thrown(token, d, CircularDependencyError(Append(resolving, token)), reg, nid, log1)
       ELSE IF ~RegistryHas(reg, token)
       THEN Thrown(token, d, DependencyNotFoundError(token), reg, nid, log1)
       ELSE LET entry == reg[token]
                provider == entry.provider
            IN IF IsValueProvider(provider)
               THEN Returned(token, d, provider.useValue, reg, nid, log1)
               ELSE IF IsClassProvider(provider)
               THEN IF HasCached(entry)
                    THEN Returned(token, d, entry.value, reg, nid, log1)
                    ELSE LET r == CreateInstance(token, provider.useClass, DepsOf(provider),
                                                 Append(resolving, token), reg, nid, log1, d)
                         IN IF ~r.ok
                            THEN Thrown(token, d, r.err, r.reg, r.nid, r.log)
                            ELSE Returned(token, d, r.val,
                                          CacheInstance(r.reg, token, provider, r.val),
                                          r.nid, r.log)
               ELSE IF IsFactoryProvider(provider)
               THEN IF HasCached(entry)
                    THEN Returned(token, d, entry.value, reg, nid, log1)
                    ELSE LET r == UseFactory(token, provider.useFactory, reg, nid, log1, d)
                         IN IF ~r.ok
                            THEN Thrown(token, d, r.err, r.reg, r.nid, r.log)
                            ELSE Returned(token, d, r.val,
                                          CacheInstance(r.reg, token, provider, r.val),
                                          r.nid, r.log)
               ELSE Thrown(token, d, InvalidProviderError(token), reg, nid, log1)

\* resolve(token): return this.resolveInternal(token, [])
ResolveCall(token, reg, nid) == ResolveInternal(token, <<>>, reg, nid, <<>>, 1)

----------------------------------------------------------------------------
(* State.                                                                  *)
(*   registry   Container.registry: token -> { provider, value? }          *)
(*   nextId     the identity the next allocated object gets                *)
(*   last       the latest call on the container and what it gave back     *)
(*   dropped    history: the identities of the instances that were cached  *)
(*              in an entry which register, unregister or clear has since  *)
(*              dropped, each with its token and the call that dropped it  *)
(*   regs       number of register calls made                              *)

MkLast(op, token, ok, val, found, err, log) ==
    [op |-> op, token |-> token, ok |-> ok, val |-> val, found |-> found,
     err |-> err, log |-> log]

Done(op, token) == MkLast(op, token, TRUE, Undefined, FALSE, NoError, <<>>)

\* The instances cached in the entries of `tokens`, as dropped by call `by`.
Cached(reg, tokens, by) ==
    {[id |-> reg[t].value.id, token |-> t, by |-> by] :
        t \in {u \in tokens \cap DOMAIN reg : reg[u].hasValue /\ IsObj(reg[u].value)}}

Init ==
    /\ registry = EmptyRegistry
    /\ nextId = 1
    /\ last = Done("new", "")
    /\ dropped = {}
    /\ regs = 0

\* What `last` records of a register call: the arguments as given.
RegisterCall(token, providerOrClass, options) ==
    [op |-> "register", token |-> token, ok |-> TRUE, val |-> Undefined,
     found |-> FALSE, err |-> NoError, log |-> <<>>,
     arg |-> providerOrClass, options |-> options]

\* register(token, providerOrClass, options)
Register(token, providerOrClass, options) ==
    /\ regs < MaxRegs
    /\ LET provider == NormalizeProvider(providerOrClass, options)
       IN registry' = RegistrySet(registry, token, MkEntry(provider))
    /\ dropped' = dropped \cup Cached(registry, {token}, "register")
    /\ regs' = regs + 1
    /\ last' = RegisterCall(token, providerOrClass, options)
    /\ UNCHANGED nextId

\* What `last` records of a registerClass call: the arguments as given.
RegisterClassCall(tokenOrClass, useClassOrOptions, options) ==
    [op |-> "registerClass", token |-> tokenOrClass, ok |-> TRUE, val |-> Undefined,
     found |-> FALSE, err |-> NoError, log |-> <<>>,
     second |-> useClassOrOptions, options |-> options]

\* Mutation of RegisterClass: with an inferred token the options are not
\* passed on (register(inferredToken, tokenOrClass)).
RegisterClassWithoutOptions(tokenOrClass, useClassOrOptions, options) ==
    LET inferred == IsCtor(tokenOrClass)
        token == IF inferred THEN NameOf(ClassOfCtor(tokenOrClass)) ELSE tokenOrClass
        providerOrClass == IF inferred THEN ClassArg(ClassOfCtor(tokenOrClass))
                           ELSE AsNewable(useClassOrOptions)
        opts == IF inferred THEN MkOptions({}, FALSE, <<>>) ELSE options
    IN /\ regs < MaxRegs
       /\ registry' = RegistrySet(registry, token,
                                  MkEntry(NormalizeProvider(providerOrClass, opts)))
       /\ dropped' = dropped \cup Cached(registry, {token}, "register")
       /\ regs' = regs + 1
       /\ last' = RegisterClassCall(tokenOrClass, useClassOrOptions, options)
       /\ UNCHANGED nextId

\* registerClass(tokenOrClass, useClassOrOptions, options): the register
\* call it makes, under the token and with the class and options it picks.
RegisterClass(tokenOrClass, useClassOrOptions, options) ==
    LET inferred == IsCtor(tokenOrClass)
        token == IF inferred THEN NameOf(ClassOfCtor(tokenOrClass)) ELSE tokenOrClass
        providerOrClass == IF inferred THEN ClassArg(ClassOfCtor(tokenOrClass))
                           ELSE AsNewable(useClassOrOptions)
        opts == IF inferred THEN AsOptions(useClassOrOptions) ELSE options
    IN /\ regs < MaxRegs
       /\ registry' = RegistrySet(registry, token,
                                  MkEntry(NormalizeProvider(providerOrClass, opts)))
       /\ dropped' = dropped \cup Cached(registry, {token}, "register")
       /\ regs' = regs + 1
       /\ last' = RegisterClassCall(tokenOrClass, useClassOrOptions, options)
       /\ UNCHANGED nextId

\* registerValue(token, useValue)
RegisterValue(token, useValue) ==
    Register(token, ObjectArg(ValueProvider(useValue)), NoOptions)

\* registerFactory(token, useFactory, options)
RegisterFactory(token, useFactory, options) ==
    Register(token,
             ObjectArg(FactoryProvider(useFactory, {"singleton"},
                                       IF "singleton" \in options.keys
                                       THEN options.singleton ELSE FALSE)),
             NoOptions)

\* unregister(token)
Unregister(token) ==
    /\ registry' = RegistryDelete(registry, token)
    /\ dropped' = dropped \cup Cached(registry, {token}, "unregister")
    /\ last' = Done("unregister", token)
    /\ UNCHANGED <<nextId, regs>>

\* Mutation of Clear: the cached singletons are discarded, the
\* registrations are kept.
ClearCachesOnly ==
    /\ registry' = [t \in DOMAIN registry |-> MkEntry(registry[t].provider)]
    /\ dropped' = dropped \cup Cached(registry, DOMAIN registry, "clear")
    /\ last' = Done("clear", "")
    /\ UNCHANGED <<nextId, regs>>

\* clear()
Clear ==
    /\ registry' = EmptyRegistry
    /\ dropped' = dropped \cup Cached(registry, DOMAIN registry, "clear")
    /\ last' = Done("clear", "")
    /\ UNCHANGED <<nextId, regs>>

\* has(token)
Has(token) ==
    /\ last' = MkLast("has", token, TRUE, Undefined, RegistryHas(registry, token), NoError, <<>>)
    /\ UNCHANGED <<registry, nextId, dropped, regs>>

\* resolve(token)
Resolve(token) ==
    LET r == ResolveCall(token, registry, nextId)
    IN /\ r.nid <= MaxObjs + 1
       /\ registry' = r.reg
       /\ nextId' = r.nid
       /\ last' = MkLast("resolve", token, r.ok, r.val, FALSE, r.err, r.log)
       /\ UNCHANGED <<dropped, regs>>

\* The calls the application makes: which token is registered with what.
\* A is a consumer of B and C; B and C are what it consumes.
SingletonOption == MkOptions({"singleton"}, TRUE, <<>>)

ClassRegistrations ==
    { <<"A", ClassArg("Plain"), MkOptions({"deps"}, FALSE, <<"B", "C">>)>>,
      <<"A", ObjectArg(ClassProvider("WithDeps", {"singleton"}, <<>>, TRUE)), NoOptions>>,
      <<"A", ClassArg("Plain"), SingletonOption>>,
      <<"A", ObjectArg(ValueProvider(Prim)), NoOptions>>,
      <<"B", ClassArg("Plain"), SingletonOption>>,
      <<"C", ClassArg("Plain"), NoOptions>> }

ValueRegistrations ==
    { <<"B", Undefined>>, <<"B", Null>>, <<"C", Prim>> }

FactoryRegistrations ==
    { <<"B", "mkObject", NoOptions>>,
      <<"B", "mkUndefined", SingletonOption>>,
      <<"B", "mkViaA", NoOptions>>,
      <<"C", "mkObject", SingletonOption>>,
      <<"C", "mkNull", SingletonOption>> }

Next ==
    \/ \E a \in ClassRegistrations : Register(a[1], a[2], a[3])
    \/ \E a \in ValueRegistrations : RegisterValue(a[1], a[2])
    \/ \E a \in FactoryRegistrations : RegisterFactory(a[1], a[2], a[3])
    \/ \E token \in Tokens : Unregister(token)
    \/ Clear
    \/ \E token \in Tokens : Has(token)
    \/ \E token \in Tokens : Resolve(token)

Spec == Init /\ [][Next]_vars

\* A second application: classes that depend on each other.  A depends on
\* B; B depends on C and A; C depends on B, or calls back for A from a
\* factory, or is a value, or is registered with an object that is no
\* provider, or has a constructor or a factory that raises an error.
DepsOption(deps) == MkOptions({"deps"}, FALSE, deps)

CycleClassRegistrations ==
    { <<"A", ClassArg("Plain"), DepsOption(<<"B">>)>>,
      <<"A", ClassArg("Plain"), MkOptions({"singleton", "deps"}, TRUE, <<"B">>)>>,
      <<"B", ClassArg("Plain"), DepsOption(<<"C", "A">>)>>,
      <<"B", ClassArg("Plain"), DepsOption(<<"A">>)>>,
      <<"C", ClassArg("Plain"), DepsOption(<<"B">>)>>,
      <<"C", ObjectArg(EmptyProvider), NoOptions>>,
      <<"C", ClassArg("Throws"), SingletonOption>> }

CycleValueRegistrations == { <<"B", Prim>>, <<"C", Prim>> }

CycleFactoryRegistrations ==
    { <<"C", "mkViaA", NoOptions>>, <<"C", "mkViaC", NoOptions>>,
      <<"C", "mkThrows", SingletonOption>> }

NextCycles ==
    \/ \E a \in CycleClassRegistrations : Register(a[1], a[2], a[3])
    \/ \E a \in CycleValueRegistrations : RegisterValue(a[1], a[2])
    \/ \E a \in CycleFactoryRegistrations : RegisterFactory(a[1], a[2], a[3])
    \/ \E token \in Tokens : Unregister(token)
    \/ Clear
    \/ \E token \in Tokens : Has(token)
    \/ \E token \in Tokens : Resolve(token)

SpecCycles == Init /\ [][NextCycles]_vars

\* A third application: classes registered through registerClass, with
\* string tokens, constructors as tokens and inferred tokens, and classes
\* that declare their dependencies as static properties.
ClassTokens == {"A", "B", "C", "Plain", "WithDeps", Ctor("Plain")}

SingletonWithDeps(deps) == MkOptions({"singleton", "deps"}, TRUE, deps)

RegisterClassCalls ==
    { <<"A", ClassRefArg("WithDeps"), SingletonOption>>,
      <<Ctor("Plain"), ClassRefArg("WithDeps"), SingletonOption>>,
      <<Ctor("WithDeps"), AbsentArg, NoOptions>>,
      <<Ctor("Plain"), OptionsArg(SingletonWithDeps(<<"B">>)), NoOptions>> }

StaticsRegistrations ==
    { <<"A", ClassArg("WithDeps"), NoOptions>>,
      <<Ctor("Plain"), ClassArg("WithDeps"), SingletonOption>>,
      <<"A", ObjectArg(ClassProvider("WithDeps", {}, <<>>, FALSE)), NoOptions>>,
      <<"A", ObjectArg(ClassProvider("WithDependencies", {}, <<>>, FALSE)), NoOptions>>,
      <<"A", ObjectArg(ClassProvider("WithBoth", {}, <<>>, FALSE)), NoOptions>>,
      <<"A", ObjectArg(ClassProvider("Plain", {}, <<>>, FALSE)), NoOptions>>,
      <<"A", ObjectArg(ClassProvider("WithBoth", {"deps"}, <<>>, FALSE)), NoOptions>>,
      <<"A", ObjectArg(ClassProvider("WithDeps", {"deps"}, <<"C">>, FALSE)), NoOptions>> }

StaticsValueRegistrations == { <<"B", Prim>>, <<"C", Null>> }

NextClasses ==
    \/ \E a \in RegisterClassCalls : RegisterClass(a[1], a[2], a[3])
    \/ \E a \in StaticsRegistrations : Register(a[1], a[2], a[3])
    \/ \E a \in StaticsValueRegistrations : RegisterValue(a[1], a[2])
    \/ \E token \in ClassTokens : Unregister(token)
    \/ Clear
    \/ \E token \in ClassTokens : Has(token)
    \/ \E token \in ClassTokens : Resolve(token)

SpecClasses == Init /\ [][NextClasses]_vars

----------------------------------------------------------------------------
(* Reading the log of a resolve call.                                      *)

----------------------------------------------------------------------------
(* A third application: classes A and C consume B, A lists it twice or     *)
(* together with C; B is a singleton or a transient.                       *)

SharedClassRegistrations ==
    { <<"A", ClassArg("Plain"), DepsOption(<<"B", "B">>)>>,
      <<"A", ClassArg("Plain"), DepsOption(<<"B", "C">>)>>,
      <<"C", ClassArg("Plain"), DepsOption(<<"B">>)>>,
      <<"C", ClassArg("Plain"), MkOptions({"singleton", "deps"}, TRUE, <<"B">>)>>,
      <<"B", ClassArg("Plain"), SingletonOption>>,
      <<"B", ClassArg("Plain"), NoOptions>>,
      <<"B", ClassArg("Throws"), SingletonOption>> }

SharedValueRegistrations == { <<"B", Prim>> }

SharedFactoryRegistrations ==
    { <<"B", "mkObject", SingletonOption>>, <<"B", "mkUndefined", SingletonOption>> }

NextShared ==
    \/ \E a \in SharedClassRegistrations : Register(a[1], a[2], a[3])
    \/ \E a \in SharedValueRegistrations : RegisterValue(a[1], a[2])
    \/ \E a \in SharedFactoryRegistrations : RegisterFactory(a[1], a[2], a[3])
    \/ \E token \in Tokens : Unregister(token)
    \/ Clear
    \/ \E token \in Tokens : Has(token)
    \/ \E token \in Tokens : Resolve(token)

SpecShared == Init /\ [][NextShared]_vars

IsExit(ev) == ev.e \in {"return", "throw"}

\* The frames of a log: <<i, j>> with log[i] the "enter" of a frame and
\* log[j] the "return" or "throw" that leaves it (the first exit at the
\* frame's depth after i).
Frames(log) ==
    {<<i, j>> \in (1..Len(log)) \X (1..Len(log)) :
        /\ i < j
        /\ log[i].e = "enter"
        /\ IsExit(log[j]) /\ log[j].d = log[i].d /\ log[j].t = log[i].t
        /\ \A k \in (i + 1)..(j - 1) : ~(IsExit(log[k]) /\ log[k].d = log[i].d)}

\* The constructor and factory results ("new", "made") the frame <<i, j>>
\* itself produced.
Produced(log, fr) ==
    {k \in fr[1]..fr[2] : log[k].e \in {"new", "made"} /\ log[k].d = log[fr[1]].d}

\* A class or factory provider that is a singleton, read off the fields.
SingletonEntry(entry) ==
    /\ "singleton" \in entry.provider.keys /\ entry.provider.singleton
    /\ "useValue" \notin entry.provider.keys
    /\ entry.provider.keys \cap {"useClass", "useFactory"} # {}

TransientEntry(entry) ==
    /\ ~("singleton" \in entry.provider.keys /\ entry.provider.singleton)
    /\ "useValue" \notin entry.provider.keys
    /\ entry.provider.keys \cap {"useClass", "useFactory"} # {}

ValueEntry(entry) == "useValue" \in entry.provider.keys

----------------------------------------------------------------------------
(* C1: between the registration of a singleton class or factory provider   *)
(* under token T and the next register(T), unregister(T) or clear(), the   *)
(* constructor or factory produces a value at most once, whatever that     *)
(* value is, and every resolve(T) returns that one value: once the entry   *)
(* of T holds the value, a resolve call produces none for T again and      *)
(* resolve(T) returns the held one.                                        *)
C1_SingletonProducedOnce ==
    [][last'.op = "resolve" =>
        \A t \in DOMAIN registry :
            (SingletonEntry(registry[t]) /\ registry[t].hasValue) =>
                /\ \A k \in 1..Len(last'.log) :
                       ~(last'.log[k].e \in {"new", "made"} /\ last'.log[k].t = t)
                /\ last'.token = t => (last'.ok /\ last'.val = registry[t].value)]_vars

----------------------------------------------------------------------------
(* C2: in every reachable state an entry holds a cached value only if its  *)
(* provider is a class or factory provider with singleton = true.          *)
C2_CachedOnlyForSingletons ==
    \A t \in DOMAIN registry : registry[t].hasValue => SingletonEntry(registry[t])

\* Reached: a singleton holds its instance while a transient provider and a
\* value provider of the same registry were resolved and hold none.
C2_Witness ==
    /\ \E t \in DOMAIN registry : registry[t].hasValue
    /\ \E t \in DOMAIN registry : ValueEntry(registry[t])
    /\ last.op = "resolve" /\ last.ok
    /\ last.token \in DOMAIN registry
    /\ TransientEntry(registry[last.token])
    /\ IsObj(last.val)

----------------------------------------------------------------------------
(* C3: for a token T registered with a non-singleton class or factory      *)
(* provider, every resolve of T that returns, top-level or as a            *)
(* dependency, invoked the constructor or factory exactly once and         *)
(* returns that result, an object the call allocated where the constructor *)
(* or factory allocates one; nothing is cached for T, so no resolve of T   *)
(* is served from a cache.                                                 *)
C3_TransientAlwaysFresh ==
    [][last'.op = "resolve" =>
        \A fr \in Frames(last'.log) :
            LET log == last'.log
                t == log[fr[1]].t
            IN (/\ log[fr[2]].e = "return"
                /\ t \in DOMAIN registry
                /\ TransientEntry(registry[t])) =>
                   /\ Cardinality(Produced(log, fr)) = 1
                   /\ \A k \in Produced(log, fr) :
                          /\ log[k].t = t
                          /\ log[fr[2]].v = log[k].v
                          /\ IsObj(log[k].v) => log[k].v.id >= nextId
                          /\ "useClass" \in registry[t].provider.keys => IsObj(log[k].v)
                   /\ ~registry'[t].hasValue]_vars

\* Reached: a transient token was resolved as a dependency and then again
\* at top level, and the two results differ.
C3_Witness ==
    /\ last.op = "resolve" /\ last.ok /\ IsObj(last.val)
    /\ last.token \in DOMAIN registry
    /\ TransientEntry(registry[last.token])
    /\ \E t \in DOMAIN registry :
           /\ registry[t].hasValue
           /\ Len(registry[t].value.args) > 0
           /\ \E i \in 1..Len(registry[t].value.args) :
                  /\ registry[t].value.args[i].cls = last.val.cls
                  /\ IsObj(registry[t].value.args[i])
                  /\ registry[t].value.args[i].id # last.val.id
           /\ last.token \in {DepsOf(registry[t].provider)[i] :
                                 i \in 1..Len(DepsOf(registry[t].provider))}

----------------------------------------------------------------------------
(* Instances dropped with their entry that are still handed out: cached in *)
(* the registry under the same token, or returned by the latest resolve of *)
(* that token.                                                             *)
RevivedIn(reg, l, x) ==
    \/ /\ RegistryHas(reg, x.token)
       /\ reg[x.token].hasValue
       /\ reg[x.token].value.id = x.id
    \/ /\ l.op = "resolve" /\ l.token = x.token
       /\ l.ok /\ l.val.id = x.id

Revived(x) == RevivedIn(registry, last, x)

\* The call recorded in l failed with DependencyNotFoundError carrying t.
NotFoundIn(l, t) ==
    /\ ~l.ok
    /\ l.err = [name |-> "DependencyNotFoundError", token |-> t, path |-> <<>>]
    /\ l.val = Undefined

NotFound(t) == NotFoundIn(last, t)

----------------------------------------------------------------------------
(* C4: register(T, ...) on a registered token replaces the provider and    *)
(* discards the cached singleton: right after the call the entry of T      *)
(* holds no value, and no instance that was cached for T under a replaced  *)
(* registration is cached for T or returned by resolve(T) afterwards.      *)
C4_ReRegisterDiscardsCache ==
    /\ last.op = "register" =>
          /\ RegistryHas(registry, last.token)
          /\ ~registry[last.token].hasValue
          /\ registry[last.token].value = Undefined
    /\ \A x \in dropped : x.by = "register" => ~Revived(x)

\* Reached: T held a cached singleton, was registered again as a singleton
\* of the same class, and resolve(T) returned and cached another instance.
C4_Witness ==
    \E x \in dropped :
        /\ x.by = "register"
        /\ last.op = "resolve" /\ last.token = x.token /\ last.ok
        /\ SingletonEntry(registry[x.token])
        /\ IsObj(last.val)
        /\ last.val.cls = "Plain"
        /\ \A y \in dropped : y.by = "register" /\ y.token = x.token
        /\ last.val.id # x.id
        /\ registry[x.token].value = last.val

----------------------------------------------------------------------------
(* C5: a resolution that reaches a token with no registry entry, as the    *)
(* argument of resolve or as a dependency, fails with                      *)
(* DependencyNotFoundError carrying that token (not the token requested),  *)
(* returns no value, and is the last thing the call resolves: from there   *)
(* every open frame is left by the exception.                              *)
C5_NotFoundCarriesMissingToken ==
    last.op = "resolve" =>
        \A i \in 1..Len(last.log) :
            (/\ last.log[i].e = "enter"
             /\ last.log[i].d <= MaxDepth
             /\ ~RegistryHas(registry, last.log[i].t)) =>
                /\ NotFound(last.log[i].t)
                /\ \A k \in (i + 1)..Len(last.log) : last.log[k].e = "throw"
                /\ Len(last.log) = i + last.log[i].d

\* Reached: resolve(T) of a registered class failed on a dependency that is
\* not registered, and the error names the dependency.
C5_Witness ==
    /\ last.op = "resolve" /\ ~last.ok
    /\ RegistryHas(registry, last.token)
    /\ \E t \in Tokens \ DOMAIN registry : t # last.token /\ NotFound(t)

----------------------------------------------------------------------------
(* C6: after unregister(T), has(T) is false and resolve(T) fails with      *)
(* DependencyNotFoundError until T is registered again, whatever T's       *)
(* provider was and whether a singleton was cached; an instance that was   *)
(* cached for T when it was unregistered is never cached or returned for T *)
(* again.                                                                  *)
C6_UnregisterRemoves ==
    [][\A t \in Tokens :
          /\ (last'.op = "unregister" /\ last'.token = t) => ~RegistryHas(registry', t)
          /\ (~RegistryHas(registry, t) /\ ~(last'.op = "register" /\ last'.token = t)) =>
                /\ ~RegistryHas(registry', t)
                /\ (last'.op = "has" /\ last'.token = t) => ~last'.found
                /\ (last'.op = "resolve" /\ last'.token = t) => NotFoundIn(last', t)
          /\ \A x \in dropped' : (x.by = "unregister" /\ x.token = t) =>
                 ~RevivedIn(registry', last', x)]_vars

\* Reached: T held a cached singleton, was unregistered, and resolve(T)
\* failed with DependencyNotFoundError(T).
C6_Witness ==
    \E x \in dropped :
        /\ x.by = "unregister"
        /\ ~RegistryHas(registry, x.token)
        /\ last.op = "resolve" /\ last.token = x.token
        /\ NotFound(x.token)

----------------------------------------------------------------------------
(* C7: clear() leaves no token registered: has(T) is false and resolve(T)  *)
(* fails with DependencyNotFoundError for every T right after it, and no   *)
(* instance that was cached when the registry was cleared is cached or     *)
(* returned for its token again.                                           *)
C7_ClearEmpties ==
    [][/\ last'.op = "clear" => \A t \in Tokens : ~RegistryHas(registry', t)
       /\ (last.op = "clear" /\ last'.op = "has") => ~last'.found
       /\ (last.op = "clear" /\ last'.op = "resolve") => NotFoundIn(last', last'.token)
       /\ \A x \in dropped' : x.by = "clear" => ~RevivedIn(registry', last', x)]_vars

\* Reached: a singleton cached before clear() was registered again
\* afterwards, and resolve returned and cached another instance.
C7_Witness ==
    \E x \in dropped :
        /\ x.by = "clear"
        /\ RegistryHas(registry, x.token)
        /\ SingletonEntry(registry[x.token])
        /\ last.op = "resolve" /\ last.token = x.token /\ last.ok
        /\ IsObj(last.val) /\ last.val.id # x.id
        /\ registry[x.token].value = last.val

----------------------------------------------------------------------------
(* C8: for a token registered with a value provider holding v, every       *)
(* resolve of it, top-level or nested, returns exactly v (undefined and    *)
(* null included) and invokes no constructor and no factory.               *)
C8_ValueProviderReturnsValue ==
    last.op = "resolve" =>
        \A i \in 1..Len(last.log) :
            (/\ last.log[i].e = "enter"
             /\ last.log[i].d <= MaxDepth
             /\ RegistryHas(registry, last.log[i].t)
             /\ ValueEntry(registry[last.log[i].t])) =>
                /\ i < Len(last.log)
                /\ last.log[i + 1] =
                       [e |-> "return", t |-> last.log[i].t, d |-> last.log[i].d,
                        v |-> registry[last.log[i].t].provider.useValue]
                /\ i = 1 =>
                       (last.ok /\ last.val = registry[last.token].provider.useValue)

\* Reached: a token registered with the value undefined was resolved and
\* undefined came back.
C8_Witness ==
    /\ last.op = "resolve" /\ last.ok
    /\ RegistryHas(registry, last.token)
    /\ ValueEntry(registry[last.token])
    /\ registry[last.token].provider.useValue = Undefined
    /\ last.val = Undefined
    /\ \E t \in DOMAIN registry : registry[t].hasValue

----------------------------------------------------------------------------
(* The frames a class frame opened for its dependencies, and their order.  *)

ChildFrames(log, fr) ==
    {c \in Frames(log) :
        fr[1] < c[1] /\ c[2] < fr[2] /\ log[c[1]].d = log[fr[1]].d + 1}

\* The n-th frame of a set of frames, in the order they were entered.
NthFrame(frames, n) ==
    CHOOSE c \in frames : Cardinality({b \in frames : b[1] < c[1]}) = n - 1

\* The dependency list of a registered class provider.
DeclaredDeps(entry) ==
    IF "deps" \in entry.provider.keys THEN entry.provider.deps
    ELSE LET st == ClassStatics(entry.provider.useClass)
         IN IF "deps" \in st.keys THEN st.deps
            ELSE IF "dependencies" \in st.keys THEN st.dependencies ELSE <<>>

ClassEntry(entry) ==
    "useClass" \in entry.provider.keys /\ "useValue" \notin entry.provider.keys

\* The frames of a log that ran a class provider's constructor path: the
\* token has a class provider and the frame did more than return a cached
\* instance or fail on entry.
ClassFrames(log, reg) ==
    {fr \in Frames(log) :
        /\ log[fr[1]].t \in DOMAIN reg
        /\ ClassEntry(reg[log[fr[1]].t])
        /\ fr[2] > fr[1] + 1}

----------------------------------------------------------------------------
(* C9: a class registered with deps [D1, ..., Dn] is constructed with      *)
(* exactly n arguments, the i-th being the value the resolution of Di      *)
(* returned during this call: the registered value for a value provider,   *)
(* the cached instance for a singleton, an object allocated by this call   *)
(* for a transient.                                                        *)
C9_ArgumentsAreResolvedDeps ==
    [][last'.op = "resolve" =>
        \A fr \in ClassFrames(last'.log, registry) :
            LET log == last'.log
                t == log[fr[1]].t
                deps == DeclaredDeps(registry[t])
                kids == ChildFrames(log, fr)
            IN \A k \in Produced(log, fr) :
                  /\ log[k].e = "new" /\ log[k].t = t
                  /\ Len(log[k].v.args) = Len(deps)
                  /\ Cardinality(kids) = Len(deps)
                  /\ \A n \in 1..Len(deps) :
                        LET c == NthFrame(kids, n)
                            arg == log[k].v.args[n]
                            dep == registry[deps[n]]
                        IN /\ log[c[1]].t = deps[n]
                           /\ log[c[2]].e = "return"
                           /\ arg = log[c[2]].v
                           /\ ValueEntry(dep) => arg = dep.provider.useValue
                           /\ SingletonEntry(dep) => arg = registry'[deps[n]].value
                           /\ (SingletonEntry(dep) /\ dep.hasValue /\ dep.value # Undefined)
                                  => arg = dep.value
                           /\ (TransientEntry(dep) /\ IsObj(arg)) => arg.id >= nextId]_vars

\* Reached: a class with two dependencies was resolved; the first argument
\* is the cached singleton of the first dependency, the second a new
\* instance of the transient second one.
C9_Witness ==
    /\ last.op = "resolve" /\ last.ok
    /\ RegistryHas(registry, last.token)
    /\ ClassEntry(registry[last.token])
    /\ DeclaredDeps(registry[last.token]) = <<"B", "C">>
    /\ Len(last.val.args) = 2
    /\ DOMAIN registry = Tokens
    /\ SingletonEntry(registry["B"]) /\ registry["B"].hasValue
    /\ last.val.args[1] = registry["B"].value /\ IsObj(last.val.args[1])
    /\ TransientEntry(registry["C"])
    /\ IsObj(last.val.args[2]) /\ last.val.args[2].id > last.val.args[1].id

----------------------------------------------------------------------------
(* C10: the dependencies of a class are resolved one after the other in    *)
(* the order of the list, each one completely (with any construction it    *)
(* triggers) before the next starts, and the constructor of the class runs *)
(* after the last of them; when one fails, none after it is resolved, the  *)
(* constructor does not run and the frame is left by the exception.        *)
C10_DepsLeftToRight ==
    last.op = "resolve" =>
        \A fr \in ClassFrames(last.log, registry) :
            LET log == last.log
                t == log[fr[1]].t
                deps == DeclaredDeps(registry[t])
                kids == ChildFrames(log, fr)
                news == Produced(log, fr)
                m == Cardinality(kids)
            IN /\ m <= Len(deps)
               /\ \A n \in 1..m :
                     LET c == NthFrame(kids, n)
                     IN /\ log[c[1]].t = deps[n]
                        /\ n < m => (/\ log[c[2]].e = "return"
                                     /\ c[2] < NthFrame(kids, n + 1)[1])
                        /\ \A k \in news : c[2] < k
               /\ \A k \in fr[1]..fr[2] :
                     (log[k].e \in {"new", "made"} /\ log[k].d = log[fr[1]].d + 1)
                         => \E c \in kids : c[1] < k /\ k < c[2]
               /\ IF \E c \in kids : log[c[2]].e = "throw"
                  THEN /\ news = {}
                       /\ log[fr[2]].e = "throw"
                       /\ log[NthFrame(kids, m)[2]].e = "throw"
                       /\ fr[2] = NthFrame(kids, m)[2] + 1
                  ELSE /\ m = Len(deps)
                       /\ Cardinality(news) = 1
                       /\ \A k \in news : log[k].e = "new" /\ fr[2] = k + 1
                       /\ log[fr[2]].e = "return"

\* Reached: both dependencies are singletons constructed for the first
\* time by this call, the first listed first, and the class after them.
C10_Witness ==
    /\ last.op = "resolve" /\ last.ok
    /\ RegistryHas(registry, last.token)
    /\ ClassEntry(registry[last.token])
    /\ DeclaredDeps(registry[last.token]) = <<"B", "C">>
    /\ DOMAIN registry = Tokens
    /\ SingletonEntry(registry["B"]) /\ SingletonEntry(registry["C"])
    /\ \E k1, k2, k3 \in 1..Len(last.log) :
           /\ k1 < k2 /\ k2 < k3
           /\ last.log[k1].e \in {"new", "made"} /\ last.log[k1].t = "B"
           /\ last.log[k2].e \in {"new", "made"} /\ last.log[k2].t = "C"
           /\ last.log[k3].e = "new" /\ last.log[k3].t = last.token

----------------------------------------------------------------------------
(* Dependency edges between class providers, and cached singletons.        *)

\* The class provider registered under x lists y among its dependencies.
DependsOn(reg, x, y) ==
    /\ RegistryHas(reg, x)
    /\ ClassEntry(reg[x])
    /\ Includes(DeclaredDeps(reg[x]), y)

\* The position of the first occurrence of x in seq.
FirstIndex(seq, x) ==
    CHOOSE i \in 1..Len(seq) : seq[i] = x /\ \A j \in 1..(i - 1) : seq[j] # x

\* The entry is a singleton whose instance a resolve would return as it is.
CachedSingleton(entry) ==
    SingletonEntry(entry) /\ entry.hasValue /\ entry.value # Undefined

\* In the frame fr of token x, every dependency listed before y was
\* resolved and returned.
EarlierDepsReturned(log, fr, reg, x, y) ==
    \A n \in 1..(FirstIndex(DeclaredDeps(reg[x]), y) - 1) :
        /\ Cardinality(ChildFrames(log, fr)) >= n
        /\ log[NthFrame(ChildFrames(log, fr), n)[2]].e = "return"

\* The call recorded in l failed with CircularDependencyError carrying path.
CircularIn(l, path) ==
    /\ ~l.ok
    /\ l.err = [name |-> "CircularDependencyError", token |-> "", path |-> path]
    /\ l.val = Undefined

----------------------------------------------------------------------------
(* C11, as stated: whenever the registry holds class provider X with Y     *)
(* among its deps and class provider Y with X among its deps, whatever     *)
(* came before, resolve(X) fails with CircularDependencyError whose path   *)
(* is X, Y, X.                                                             *)
C11_CycleAlwaysDetected ==
    \A x, y \in Tokens :
        (/\ x # y
         /\ DependsOn(registry, x, y) /\ DependsOn(registry, y, x)
         /\ last.op = "resolve" /\ last.token = x) =>
            CircularIn(last, <<x, y, x>>)

(* C11, amended: the same, provided that when resolve(X) is called neither *)
(* X nor Y is a singleton holding a cached instance, and that the          *)
(* dependencies listed before Y in X's deps, and before X in Y's deps,     *)
(* are resolved without error during the call.                             *)
C11_CycleDetectedUnlessCached ==
    [][\A x, y \in Tokens :
        (/\ x # y
         /\ DependsOn(registry, x, y) /\ DependsOn(registry, y, x)
         /\ ~CachedSingleton(registry[x]) /\ ~CachedSingleton(registry[y])
         /\ last'.op = "resolve" /\ last'.token = x
         /\ \A fr \in Frames(last'.log) :
               /\ (fr[1] = 1 => EarlierDepsReturned(last'.log, fr, registry, x, y))
               /\ (last'.log[fr[1]].d = 2 /\ last'.log[fr[1]].t = y)
                      => EarlierDepsReturned(last'.log, fr, registry, y, x)) =>
            /\ CircularIn(last', <<x, y, x>>)
            /\ registry' = registry]_vars

\* Reached: A depends on B, B on C and A, C is a value; resolve(A) resolved
\* C for B and then failed on A with the path A, B, A.
C11_Witness ==
    /\ last.op = "resolve" /\ last.token = "A"
    /\ DependsOn(registry, "A", "B") /\ DependsOn(registry, "B", "A")
    /\ DeclaredDeps(registry["B"]) = <<"C", "A">>
    /\ RegistryHas(registry, "C") /\ ValueEntry(registry["C"])
    /\ \E k \in 1..Len(last.log) : last.log[k].e = "return" /\ last.log[k].t = "C"
    /\ CircularIn(last, <<"A", "B", "A">>)

----------------------------------------------------------------------------
(* The resolution path at the point where a call failed.                   *)

\* The first exception of a log: the frame that threw rather than passed an
\* exception on.
FirstThrow(log) ==
    CHOOSE j \in 1..Len(log) :
        log[j].e = "throw" /\ \A i \in 1..(j - 1) : log[i].e # "throw"

\* The frame at depth k that is open when the event at index j happens.
OpenFrame(log, j, k) ==
    CHOOSE i \in 1..j :
        /\ log[i].e = "enter" /\ log[i].d = k
        /\ \A h \in (i + 1)..j : ~(log[h].e = "enter" /\ log[h].d = k)

\* The depth of the frame that container.resolve entered with an empty
\* path, for the frame that threw at index j: the top-level frame, or the
\* frame right below the innermost factory being invoked.
PathStart(log, j) ==
    LET invoking == {k \in 1..(log[j].d - 1) :
                        \E h \in OpenFrame(log, j, k)..j :
                            log[h].e = "invoke" /\ log[h].d = k}
    IN IF invoking = {} THEN 1
       ELSE 1 + CHOOSE k \in invoking : \A g \in invoking : g <= k

\* The tokens of the frames open at index j, from the depth `from` down to
\* the frame of j itself.
OpenPath(log, j, from) ==
    [n \in 1..(log[j].d - from + 1) |-> log[OpenFrame(log, j, from + n - 1)].t]

\* The shape of a cycle: the last token occurs exactly once earlier, no
\* other token is repeated, and each token is a declared dependency of the
\* class provider before it.
CyclePath(path, reg) ==
    /\ Len(path) >= 2
    /\ Cardinality({i \in 1..(Len(path) - 1) : path[i] = path[Len(path)]}) = 1
    /\ \A i, j \in 1..(Len(path) - 1) : i # j => path[i] # path[j]
    /\ \A n \in 1..(Len(path) - 1) : DependsOn(reg, path[n], path[n + 1])

CircularFailure(l) == l.op = "resolve" /\ ~l.ok /\ l.err.name = "CircularDependencyError"

----------------------------------------------------------------------------
(* C12, as stated: whenever resolve(T) fails with CircularDependencyError, *)
(* the path starts with T, lists the tokens in the order they were         *)
(* entered, ends with the repeated token, which occurs exactly once        *)
(* earlier, repeats no other token, and every consecutive pair is a        *)
(* declared dependency edge between class providers.                       *)
C12_PathStartsWithRequested ==
    CircularFailure(last) =>
        /\ last.err.path[1] = last.token
        /\ last.err.path = OpenPath(last.log, FirstThrow(last.log), 1)
        /\ CyclePath(last.err.path, registry)

(* C12, amended: the path starts with the token of the resolve call that   *)
(* detected the cycle, which is T or, when the cycle is met inside a       *)
(* factory, the token the factory body passed to container.resolve; the    *)
(* rest as stated.                                                         *)
C12_PathOfDetectingCall ==
    CircularFailure(last) =>
        LET j == FirstThrow(last.log)
            from == PathStart(last.log, j)
        IN /\ last.err.path = OpenPath(last.log, j, from)
           /\ from = 1 => last.err.path[1] = last.token
           /\ last.err.token = ""
           /\ last.val = Undefined
           /\ CyclePath(last.err.path, registry)

\* Reached: resolve of a factory token failed on the cycle A, B, A that the
\* factory's own resolve(A) met.
C12_Witness ==
    /\ CircularFailure(last)
    /\ RegistryHas(registry, last.token)
    /\ "useFactory" \in registry[last.token].provider.keys
    /\ PathStart(last.log, FirstThrow(last.log)) = 2
    /\ last.err.path = <<"A", "B", "A">>

----------------------------------------------------------------------------
(* C13: register(T, p) with an object p that has none of useClass,         *)
(* useValue, useFactory succeeds and makes has(T) true; every resolution   *)
(* that reaches T, top-level or as a dependency, fails with                *)
(* InvalidProviderError carrying T, and no value is ever cached for T.     *)
InvalidEntry(entry) ==
    entry.provider.keys \cap {"useClass", "useValue", "useFactory"} = {}

\* The call recorded in l failed with InvalidProviderError carrying t.
InvalidIn(l, t) ==
    /\ ~l.ok
    /\ l.err = [name |-> "InvalidProviderError", token |-> t, path |-> <<>>]
    /\ l.val = Undefined

C13_InvalidProviderFailsOnResolve ==
    /\ \A t \in DOMAIN registry :
          InvalidEntry(registry[t]) =>
              /\ ~registry[t].hasValue /\ registry[t].value = Undefined
              /\ (last.op = "register" /\ last.token = t) => (last.ok /\ last.err = NoError)
              /\ (last.op = "has" /\ last.token = t) => last.found
    /\ last.op = "resolve" =>
          \A i \in 1..Len(last.log) :
              (/\ last.log[i].e = "enter"
               /\ last.log[i].d <= MaxDepth
               /\ RegistryHas(registry, last.log[i].t)
               /\ InvalidEntry(registry[last.log[i].t])) =>
                  /\ InvalidIn(last, last.log[i].t)
                  /\ \A k \in (i + 1)..Len(last.log) : last.log[k].e = "throw"
                  /\ Len(last.log) = i + last.log[i].d

\* Reached: a class lists the invalid token first among its dependencies,
\* and resolving the class failed with InvalidProviderError for that token.
C13_Witness ==
    /\ last.op = "resolve" /\ last.token # "C"
    /\ RegistryHas(registry, last.token) /\ ClassEntry(registry[last.token])
    /\ RegistryHas(registry, "C") /\ InvalidEntry(registry["C"])
    /\ DependsOn(registry, last.token, "C")
    /\ InvalidIn(last, "C")

----------------------------------------------------------------------------
(* What register(token, Class, options) leaves in the registry, and what a *)
(* resolve of the token gives next.                                        *)

RegistryAfterRegister(reg, token, cls, options) ==
    RegistrySet(reg, token, MkEntry(NormalizeProvider(ClassArg(cls), options)))

\* The resolve recorded in l, of a token just registered with class cls and
\* the given options, gave an instance of cls built from options.deps and
\* cached according to options.singleton, or failed on a dependency.
ResolvedAsRegistered(l, reg, token, cls, options) ==
    (l.op = "resolve" /\ l.token = token) =>
        /\ l.ok =>
              /\ IsObj(l.val) /\ l.val.cls = cls
              /\ Len(l.val.args) = (IF "deps" \in options.keys THEN Len(options.deps) ELSE 0)
              /\ RegistryHas(reg, token)
              /\ reg[token].hasValue = ("singleton" \in options.keys /\ options.singleton)
              /\ reg[token].hasValue => reg[token].value = l.val
        /\ ~l.ok => (l.err.token # token /\ "deps" \in options.keys /\ options.deps # <<>>)

----------------------------------------------------------------------------
(* C14: registerClass(token, Class, options) with an explicit token leaves *)
(* the registry as register(token, Class, options) does, whether the token *)
(* is a string or a class constructor (the same as Class or another one),  *)
(* and resolve(token) then gives an instance of Class built with the       *)
(* options.                                                                *)
C14_RegisterClassExplicitToken ==
    [][/\ (last'.op = "registerClass" /\ last'.second.typeof = "function") =>
             registry' = RegistryAfterRegister(registry, last'.token, last'.second.fn,
                                               last'.options)
       /\ (last.op = "registerClass" /\ last.second.typeof = "function") =>
             ResolvedAsRegistered(last', registry', last.token, last.second.fn,
                                  last.options)]_vars

----------------------------------------------------------------------------
(* C15: registerClass(Class, options) without a token registers Class      *)
(* under the string Class.name as register(Class.name, Class, options)     *)
(* does: has(Class.name) is true afterwards, resolve(Class.name) gives an  *)
(* instance of Class, and options.singleton and options.deps are honoured. *)
C15_RegisterClassInfersName ==
    [][/\ (last'.op = "registerClass" /\ IsCtor(last'.token)
              /\ last'.second.typeof # "function") =>
             registry' = RegistryAfterRegister(registry, NameOf(ClassOfCtor(last'.token)),
                                               ClassOfCtor(last'.token), last'.second.opts)
       /\ (last.op = "registerClass" /\ IsCtor(last.token)
              /\ last.second.typeof # "function") =>
             /\ (last'.op = "has" /\ last'.token = NameOf(ClassOfCtor(last.token)))
                    => last'.found
             /\ ResolvedAsRegistered(last', registry', NameOf(ClassOfCtor(last.token)),
                                     ClassOfCtor(last.token), last.second.opts)]_vars

\* Reached: registerClass(Plain, { singleton: true, deps: ['B'] }) was
\* followed by resolve('Plain'), which returned and cached an instance of
\* Plain built with the value of B.
C15_Witness ==
    /\ last.op = "resolve" /\ last.token = "Plain" /\ last.ok
    /\ last.val.cls = "Plain"
    /\ RegistryHas(registry, "B")
    /\ last.val.args = <<registry["B"].provider.useValue>>
    /\ registry["Plain"].value = last.val
    /\ registry["Plain"].provider.singleton
    /\ ~RegistryHas(registry, Ctor("Plain"))

----------------------------------------------------------------------------
(* C16: every resolve(T) call ends, for every registry of class, value and *)
(* factory providers, factories that call back into resolve included, by   *)
(* returning a value or by failing with DependencyNotFoundError,           *)
(* CircularDependencyError or InvalidProviderError.                        *)
C16_ResolveEndsWithValueOrDiagnostic ==
    last.op = "resolve" =>
        \/ last.ok
        \/ last.err.name \in {"DependencyNotFoundError", "CircularDependencyError",
                              "InvalidProviderError"}

----------------------------------------------------------------------------
(* Injection as read from the result of a resolve call.                    *)

\* The frame fr of the log constructed an instance whose arguments are the
\* values returned for the tokens of deps, resolved in that order.
InjectedFrom(log, fr, deps) ==
    LET kids == ChildFrames(log, fr)
    IN /\ Cardinality(kids) = Len(deps)
       /\ \A n \in 1..Len(deps) :
             /\ log[NthFrame(kids, n)[1]].t = deps[n]
             /\ log[NthFrame(kids, n)[2]].e = "return"
       /\ \E k \in Produced(log, fr) :
             /\ log[k].e = "new"
             /\ log[k].v.args = [n \in 1..Len(deps) |-> log[NthFrame(kids, n)[2]].v]
             /\ log[fr[2]].e = "return" /\ log[fr[2]].v = log[k].v

\* The call recorded in l registered class cls under token without passing
\* deps in the options: register(token, cls, options) or registerClass(cls,
\* options).
RegisteredWithoutDeps(l, token, cls) ==
    \/ /\ l.op = "register" /\ l.token = token
       /\ l.arg.typeof = "function" /\ l.arg.fn = cls
       /\ "deps" \notin l.options.keys
    \/ /\ l.op = "registerClass" /\ l.token = Ctor(cls) /\ token = NameOf(cls)
       /\ l.second.typeof # "function"
       /\ "deps" \notin l.second.opts.keys

----------------------------------------------------------------------------
(* C17: a class whose dependencies are declared only as static deps = [D]  *)
(* and which is registered without options.deps, by register(T, C) or by   *)
(* registerClass(C), is constructed with resolve(D) as its argument.       *)
C17_StaticDepsSuffice ==
    [][\A token \in ClassTokens : \A cls \in Classes :
          (/\ RegisteredWithoutDeps(last, token, cls)
           /\ ClassStatics(cls).keys = {"deps"}
           /\ last'.op = "resolve" /\ last'.token = token
           /\ \A n \in 1..Len(ClassStatics(cls).deps) :
                 /\ RegistryHas(registry, ClassStatics(cls).deps[n])
                 /\ ValueEntry(registry[ClassStatics(cls).deps[n]])) =>
              /\ last'.ok
              /\ InjectedFrom(last'.log, <<1, Len(last'.log)>>, ClassStatics(cls).deps)]_vars

----------------------------------------------------------------------------
(* C20: for a class provider stored without a deps field                   *)
(* (register(T, { useClass: C })) the dependencies resolved are C's static *)
(* deps if it has them, else its static dependencies, else none; a         *)
(* provider that carries its own deps list, even an empty one, has that    *)
(* list resolved and the static properties of the class ignored.           *)
C20_DepsOfProviderThenStatics ==
    last.op = "resolve" =>
        \A fr \in ClassFrames(last.log, registry) :
            LET provider == registry[last.log[fr[1]].t].provider
                statics == ClassStatics(provider.useClass)
                expected == IF "deps" \in provider.keys THEN provider.deps
                            ELSE IF "deps" \in statics.keys THEN statics.deps
                            ELSE IF "dependencies" \in statics.keys THEN statics.dependencies
                            ELSE <<>>
            IN \/ InjectedFrom(last.log, fr, expected)
               \/ /\ last.log[fr[2]].e = "throw"
                  /\ Cardinality(ChildFrames(last.log, fr)) <= Len(expected)
                  /\ \A n \in 1..Cardinality(ChildFrames(last.log, fr)) :
                        last.log[NthFrame(ChildFrames(last.log, fr), n)[1]].t = expected[n]

\* Reached: a class declaring both static deps = ['B'] and static
\* dependencies = ['C'], registered as { useClass } alone, was constructed
\* with the value of B.
C20_Witness ==
    /\ last.op = "resolve" /\ last.ok
    /\ RegistryHas(registry, last.token)
    /\ registry[last.token].provider.keys = {"useClass"}
    /\ registry[last.token].provider.useClass = "WithBoth"
    /\ RegistryHas(registry, "B") /\ RegistryHas(registry, "C")
    /\ last.val.args = <<registry["B"].provider.useValue>>

----------------------------------------------------------------------------
(* C18: when resolve(T) fails because a constructor or factory raises an   *)
(* error, or because resolving a dependency fails, the error reaches the   *)
(* caller of resolve as it was raised, no value is returned, nothing is    *)
(* cached for the tokens whose resolution failed, and a later resolve(T)   *)
(* attempts the construction again.                                        *)
FactoryEntry(entry) ==
    /\ "useFactory" \in entry.provider.keys
    /\ entry.provider.keys \cap {"useValue", "useClass"} = {}

\* The error raised where a failed call first threw, at index j of its log.
RaisedAt(log, j, reg) ==
    LET t == log[j].t
    IN IF j > 1 /\ log[j - 1].e = "raise"
       THEN [name |-> "Error", token |-> "", path |-> <<>>]
       ELSE IF log[j].d > MaxDepth
       THEN [name |-> "RangeError", token |-> "", path |-> <<>>]
       ELSE IF log[j - 1].e # "enter"
       THEN [name |-> "?", token |-> "", path |-> <<>>]
       ELSE IF ~RegistryHas(reg, t)
       THEN [name |-> "DependencyNotFoundError", token |-> t, path |-> <<>>]
       ELSE IF InvalidEntry(reg[t])
       THEN [name |-> "InvalidProviderError", token |-> t, path |-> <<>>]
       ELSE [name |-> "CircularDependencyError", token |-> "",
             path |-> OpenPath(log, j, PathStart(log, j))]

C18_ErrorsPropagateUnchanged ==
    [][/\ (last'.op = "resolve" /\ ~last'.ok) =>
             LET log == last'.log
                 j == FirstThrow(log)
             IN /\ last'.val = Undefined
                /\ last'.err = RaisedAt(log, j, registry)
                /\ \A k \in j..Len(log) : log[k].e = "throw"
                /\ Len(log) = j + log[j].d - 1
                /\ \A fr \in Frames(log) :
                      (log[fr[2]].e = "throw" /\ RegistryHas(registry, log[fr[1]].t)) =>
                          /\ registry'[log[fr[1]].t] = registry[log[fr[1]].t]
                          /\ ~registry'[log[fr[1]].t].hasValue
       /\ (/\ last.op = "resolve" /\ ~last.ok
           /\ last'.op = "resolve" /\ last'.token = last.token
           /\ RegistryHas(registry, last.token)
           /\ (ClassEntry(registry[last.token]) \/ FactoryEntry(registry[last.token]))) =>
              last'.log[2].e \in {"enter", "invoke", "raise", "new"}]_vars

\* Reached: the constructor of the singleton C raised while A was resolved
\* through B; the call ended with that error and C holds no instance.
C18_Witness ==
    /\ last.op = "resolve" /\ last.token = "A" /\ ~last.ok
    /\ last.err = [name |-> "Error", token |-> "", path |-> <<>>]
    /\ RegistryHas(registry, "C") /\ SingletonEntry(registry["C"])
    /\ ClassEntry(registry["C"])
    /\ ~registry["C"].hasValue
    /\ \E k \in 1..Len(last.log) :
           last.log[k].e = "raise" /\ last.log[k].t = "C" /\ last.log[k].d = 3

----------------------------------------------------------------------------
(* C19: the entry of a token T changes only through register(T, ...),      *)
(* unregister(T), clear(), or a resolve that sets the cached value of the  *)
(* singleton T it constructed: register and unregister of T leave every    *)
(* other entry as it is, has changes nothing, and resolve, successful or   *)
(* not, adds, removes and replaces no provider.                            *)
EntryChanged(reg1, reg2, t) ==
    \/ RegistryHas(reg1, t) # RegistryHas(reg2, t)
    \/ RegistryHas(reg1, t) /\ RegistryHas(reg2, t) /\ reg1[t] # reg2[t]

C19_EntriesChangeOnlyByTheirOperations ==
    [][/\ \A t \in Tokens :
             EntryChanged(registry, registry', t) =>
                 \/ last'.op \in {"register", "unregister"} /\ last'.token = t
                 \/ last'.op = "clear"
                 \/ /\ last'.op = "resolve"
                    /\ RegistryHas(registry, t) /\ RegistryHas(registry', t)
                    /\ registry'[t].provider = registry[t].provider
                    /\ SingletonEntry(registry[t])
                    /\ registry'[t].hasValue
                    /\ \E k \in 1..Len(last'.log) :
                           /\ last'.log[k].e \in {"new", "made"}
                           /\ last'.log[k].t = t
                           /\ last'.log[k].v = registry'[t].value
       /\ last'.op = "has" => registry' = registry
       /\ last'.op = "resolve" =>
             /\ DOMAIN registry' = DOMAIN registry
             /\ \A t \in DOMAIN registry : registry'[t].provider = registry[t].provider]_vars

\* Reached: one resolve constructed a transient class, its singleton first
\* dependency and its transient second dependency; only the singleton's
\* entry holds a value.
C19_Witness ==
    /\ last.op = "resolve" /\ last.ok
    /\ DOMAIN registry = Tokens
    /\ TransientEntry(registry[last.token])
    /\ \A t \in Tokens :
           \E k \in 1..Len(last.log) : last.log[k].e \in {"new", "made"} /\ last.log[k].t = t
    /\ \E t \in Tokens :
           /\ SingletonEntry(registry[t]) /\ registry[t].hasValue
           /\ \A u \in Tokens \ {t} : TransientEntry(registry[u]) /\ ~registry[u].hasValue

----------------------------------------------------------------------------
(* The path a frame was entered with.                                      *)

\* The resolving argument of the frame entered at index i of the log: the
\* tokens of the frames open above it, back to the frame container.resolve
\* entered.
PathPassed(log, i) ==
    LET path == OpenPath(log, i, PathStart(log, i))
    IN SubSeq(path, 1, Len(path) - 1)

\* The tokens of all the frames open above the frame entered at index i.
OuterTokens(log, i) == {log[OpenFrame(log, i, k)].t : k \in 1..(log[i].d - 1)}

\* The factory registered under f resolves token t in its body.
FactoryCalls(reg, f, t) ==
    /\ RegistryHas(reg, f)
    /\ FactoryEntry(reg[f])
    /\ Includes(FactoryBody(reg[f].provider.useFactory).calls, t)

----------------------------------------------------------------------------
(* C21, as stated: a resolve call made by a factory starts with an empty   *)
(* path, so a loop through a factory (class A with deps [F] and factory F  *)
(* calling resolve(A), or factory F calling resolve(F)) is never reported  *)
(* as CircularDependencyError, while a loop made only of class-provider    *)
(* deps always is.                                                         *)
C21_ClassLoopsAlwaysReported ==
    last.op = "resolve" =>
        /\ \A a, f \in Tokens :
              (/\ FactoryCalls(registry, f, a)
               /\ (a = f \/ DependsOn(registry, a, f))
               /\ CircularFailure(last)) =>
                  \A n \in 1..Len(last.err.path) : last.err.path[n] # f
        /\ \A x, y \in Tokens :
              (/\ x # y
               /\ DependsOn(registry, x, y) /\ DependsOn(registry, y, x)
               /\ last.token = x) => CircularFailure(last)

(* C21, amended: the same for the factory; a loop made only of             *)
(* class-provider deps is reported when the resolution enters a token that *)
(* is on its path, which it does unless a cached singleton or a failing    *)
(* dependency ends the descent before.                                     *)
C21_FactoryResolveStartsEmptyPath ==
    last.op = "resolve" =>
        \A i \in 1..Len(last.log) :
            (last.log[i].e = "enter" /\ last.log[i].d <= MaxDepth) =>
                LET log == last.log
                    t == log[i].t
                    from == PathStart(log, i)
                    path == PathPassed(log, i)
                IN /\ from > 1 =>
                         /\ FactoryEntry(registry[log[OpenFrame(log, i, from - 1)].t])
                         /\ log[i].d = from => path = <<>>
                   /\ \A n \in 1..Len(path) : ClassEntry(registry[path[n]])
                   /\ Includes(path, t) =>
                         /\ log[i + 1].e = "throw"
                         /\ CircularIn(last, Append(path, t))
                   /\ (/\ ~Includes(path, t)
                       /\ RegistryHas(registry, t)
                       /\ ~InvalidEntry(registry[t])) => log[i + 1].e # "throw"

\* Reached: A depends on B, B on C, and C is a factory resolving A; the
\* resolve of A made by the factory was entered with an empty path while A
\* was open above it, went on into B, and the call ended on the stack bound.
C21_Witness ==
    /\ last.op = "resolve" /\ last.token = "A" /\ ~last.ok
    /\ last.err.name = "RangeError"
    /\ DependsOn(registry, "A", "B") /\ DependsOn(registry, "B", "C")
    /\ FactoryCalls(registry, "C", "A")
    /\ \E i \in 1..Len(last.log) :
           /\ last.log[i].e = "enter" /\ last.log[i].t = "A" /\ last.log[i].d = 4
           /\ PathPassed(last.log, i) = <<>>
           /\ "A" \in OuterTokens(last.log, i)
           /\ last.log[i + 1].e = "enter" /\ last.log[i + 1].t = "B"

----------------------------------------------------------------------------
(* Shared dependencies.                                                    *)

\* The frames of the log that returned a value for token t.
ReturnedFor(log, t) ==
    {fr \in Frames(log) : log[fr[1]].t = t /\ log[fr[2]].e = "return"}

\* The constructions of token t in the log.
ConstructionsOf(log, t) ==
    {k \in 1..Len(log) : log[k].e = "new" /\ log[k].t = t}

\* The values the class frames of the log passed to their constructors at
\* the positions where their deps list names t.
ReceivedFor(log, reg, t) ==
    {log[k].v.args[n] :
        <<k, n>> \in
            {kn \in (1..Len(log)) \X (1..MaxDepth) :
                /\ log[kn[1]].e = "new"
                /\ log[kn[1]].t \in DOMAIN reg
                /\ ClassEntry(reg[log[kn[1]].t])
                /\ kn[2] <= Len(DeclaredDeps(reg[log[kn[1]].t]))
                /\ DeclaredDeps(reg[log[kn[1]].t])[kn[2]] = t}}

----------------------------------------------------------------------------
----------------------------------------------------------------------------
(* Registries without factories.                                           *)

NoFactories(reg) == \A t \in DOMAIN reg : ~FactoryEntry(reg[t])

\* A constructor of a registered class raised an error during the call.
ConstructorRaised(log, reg) ==
    \E k \in 1..Len(log) :
        /\ log[k].e = "raise"
        /\ log[k].t \in DOMAIN reg
        /\ ClassEntry(reg[log[k].t])
        /\ ClassThrows(reg[log[k].t].provider.useClass)

----------------------------------------------------------------------------
(* C23: when no registered provider is a factory, the path passed to each  *)
(* call of the recursion holds no token twice and is no longer than the    *)
(* number of registered tokens, and every resolve call ends with a value   *)
(* or with DependencyNotFoundError, CircularDependencyError or             *)
(* InvalidProviderError (or with the error a registered class's            *)
(* constructor raised, when one did): the stack is never exhausted.        *)
C23_PathBoundedWithoutFactories ==
    (last.op = "resolve" /\ NoFactories(registry)) =>
        /\ \A i \in 1..Len(last.log) :
              last.log[i].e = "enter" =>
                  LET path == PathPassed(last.log, i)
                  IN /\ Len(path) = last.log[i].d - 1
                     /\ \A n1, n2 \in 1..Len(path) :
                           n1 # n2 => path[n1] # path[n2]
                     /\ \A n \in 1..Len(path) : RegistryHas(registry, path[n])
                     /\ Len(path) <= Cardinality(DOMAIN registry)
        /\ \/ last.ok
           \/ last.err.name \in {"DependencyNotFoundError", "CircularDependencyError",
                                 "InvalidProviderError"}
           \/ /\ last.err = UserError
              /\ ConstructorRaised(last.log, registry)

\* Reached: three classes are registered, A depends on B, B on C and C on
\* B; the resolve of A went down to a call for B with the path A, B, C, as
\* long as the registry, and ended there with CircularDependencyError.
C23_Witness ==
    /\ last.op = "resolve" /\ last.token = "A" /\ ~last.ok
    /\ NoFactories(registry)
    /\ Cardinality(DOMAIN registry) = 3
    /\ CircularIn(last, <<"A", "B", "C", "B">>)
    /\ \E i \in 1..Len(last.log) :
           /\ last.log[i].e = "enter" /\ last.log[i].t = "B"
           /\ PathPassed(last.log, i) = <<"A", "B", "C">>

====
